---- MODULE Spec2Model ----
(***************************************************************************)
(* Model of memeRenamer.py (dwhagar/imageTools): the word pipeline          *)
(* (sort_words_by_freq, filter_similar_words, label selection) and the      *)
(* planning / renaming passes of main().                                    *)
(*                                                                          *)
(* A word or a file name is a sequence of one-character strings; the 32     *)
(* hex digits of an MD5 digest are kept as one symbol.                      *)
(***************************************************************************)
EXTENDS Integers, Sequences, FiniteSets, TLC

\* ------------------------------------------------------------------------
\* Bounds of the model
\* ------------------------------------------------------------------------

\* longest token list handed to filter_similar_words / sort_words_by_freq
MaxWords == 3

\* largest count a word has in a drawn frequency table
MaxFreq == 2

\* most files in the scanned directory
MaxFiles == 2

\* ------------------------------------------------------------------------
\* Program constants
\* ------------------------------------------------------------------------

\* similarity_threshold=0.80, as a percentage
SimilarityThresholdPct == 80

\* len(word) >= 10 is rejected by filter_similar_words
LongWordLen == 10

\* len(word) >= 5 is required of a token by process_image
MinTokenLen == 5

\* len(words) < 2 falls back to the MD5 name
MinLabelWords == 2

\* words[:5]
MaxLabelWords == 5

\* ------------------------------------------------------------------------
\* Characters and words
\* ------------------------------------------------------------------------

LowerLetters ==
  <<"a","b","c","d","e","f","g","h","i","j","k","l","m",
    "n","o","p","q","r","s","t","u","v","w","x","y","z">>

UpperLetters ==
  <<"A","B","C","D","E","F","G","H","I","J","K","L","M",
    "N","O","P","Q","R","S","T","U","V","W","X","Y","Z">>

Range(s) == {s[i] : i \in DOMAIN s}

Min(a, b) == IF a <= b THEN a ELSE b

\* string.punctuation, the part of it the model's texts use
Punctuation == {"!", ".", ",", "'", "-", "?"}

\* str.isalpha(): non-empty and every character a letter
IsAlpha(w) ==
  /\ Len(w) > 0
  /\ \A i \in DOMAIN w : w[i] \in Range(LowerLetters) \cup Range(UpperLetters)

LowerChar(c) ==
  IF c \in Range(UpperLetters)
    THEN LowerLetters[CHOOSE i \in DOMAIN UpperLetters : UpperLetters[i] = c]
    ELSE c

\* str.lower()
Lower(w) == [i \in DOMAIN w |-> LowerChar(w[i])]

\* str.strip(string.punctuation)
RECURSIVE StripPunct(_)
StripPunct(w) ==
  IF Len(w) = 0 THEN w
  ELSE IF w[1] \in Punctuation THEN StripPunct(Tail(w))
  ELSE IF w[Len(w)] \in Punctuation THEN StripPunct(SubSeq(w, 1, Len(w) - 1))
  ELSE w

w_water == <<"w","a","t","e","r">>
w_later == <<"l","a","t","e","r">>
w_waters == <<"w","a","t","e","r","s">>
w_photo == <<"p","h","o","t","o">>
w_photos == <<"p","h","o","t","o","s">>
w_night == <<"n","i","g","h","t">>
w_child == <<"c","h","i","l","d">>
w_lemon == <<"l","e","m","o","n">>
w_brick == <<"b","r","i","c","k">>
w_blackbird == <<"b","l","a","c","k","b","i","r","d">>
w_photograph == <<"p","h","o","t","o","g","r","a","p","h">>

\* ------------------------------------------------------------------------
\* stemmer.stem: the Porter stemmer on the model's vocabulary, where only
\* its step 1a applies ("ss" is kept, a final "s" is dropped)
\* ------------------------------------------------------------------------

Stem(w) ==
  IF Len(w) > 2 /\ w[Len(w)] = "s" /\ w[Len(w) - 1] # "s"
    THEN SubSeq(w, 1, Len(w) - 1)
    ELSE w

\* ------------------------------------------------------------------------
\* difflib.SequenceMatcher(None, a, b).ratio()
\* ------------------------------------------------------------------------

\* a[i .. i+k-1] = b[j .. j+k-1]
BlockAt(a, i, b, j, k) == \A d \in 0 .. (k - 1) : a[i + d] = b[j + d]

\* a block of length k lies in a[alo..ahi] and b[blo..bhi]
HasBlock(a, alo, ahi, b, blo, bhi, k) ==
  \E i \in alo .. (ahi - k + 1) : \E j \in blo .. (bhi - k + 1) :
    BlockAt(a, i, b, j, k)

\* find_longest_match: the longest block, the earliest in a, then the
\* earliest in b; <<i, j, k>> with k = 0 when nothing matches
FindLongestMatch(a, alo, ahi, b, blo, bhi) ==
  LET lim == Min(ahi - alo + 1, bhi - blo + 1)
      ks == {k \in 1 .. lim : HasBlock(a, alo, ahi, b, blo, bhi, k)}
  IN IF ks = {} THEN <<alo, blo, 0>>
     ELSE LET k == CHOOSE x \in ks : \A y \in ks : y <= x
              i == CHOOSE x \in alo .. (ahi - k + 1) :
                     /\ \E j \in blo .. (bhi - k + 1) : BlockAt(a, x, b, j, k)
                     /\ \A y \in alo .. (x - 1) :
                          ~ \E j \in blo .. (bhi - k + 1) : BlockAt(a, y, b, j, k)
              j == CHOOSE x \in blo .. (bhi - k + 1) :
                     /\ BlockAt(a, i, b, x, k)
                     /\ \A y \in blo .. (x - 1) : ~ BlockAt(a, i, b, y, k)
          IN <<i, j, k>>

\* get_matching_blocks, summed: the matched characters of a[alo..ahi] and
\* b[blo..bhi]
RECURSIVE Matches(_, _, _, _, _, _)
Matches(a, alo, ahi, b, blo, bhi) ==
  IF alo > ahi \/ blo > bhi THEN 0
  ELSE LET m == FindLongestMatch(a, alo, ahi, b, blo, bhi)
       IN IF m[3] = 0 THEN 0
          ELSE m[3]
               + Matches(a, alo, m[1] - 1, b, blo, m[2] - 1)
               + Matches(a, m[1] + m[3], ahi, b, m[2] + m[3], bhi)

\* ratio() >= pct / 100, where ratio() is 2.0 * matches / (len(a) + len(b))
\* and 1.0 for two empty sequences
RatioAtLeast(a, b, pct) ==
  IF Len(a) + Len(b) = 0 THEN 100 >= pct
  ELSE 200 * Matches(a, 1, Len(a), b, 1, Len(b)) >= pct * (Len(a) + Len(b))

\* ------------------------------------------------------------------------
\* filter_similar_words
\* ------------------------------------------------------------------------

\* the inner loop without the comparison of the stems' ratio
LoopTooSimilar_WordRatioOnly(word, filtered_words) ==
  \E n \in DOMAIN filtered_words :
    LET other_word == filtered_words[n]
    IN IF Stem(word) = Stem(other_word) THEN TRUE
       ELSE RatioAtLeast(word, other_word, SimilarityThresholdPct)

\* the inner loop with too_similar overwritten by every comparison, so that
\* only the last accepted word decides
LoopTooSimilar_LastOnly(word, filtered_words) ==
  /\ filtered_words # <<>>
  /\ LET other_word == filtered_words[Len(filtered_words)]
     IN IF Stem(word) = Stem(other_word) THEN TRUE
        ELSE \/ RatioAtLeast(word, other_word, SimilarityThresholdPct)
             \/ RatioAtLeast(Stem(word), Stem(other_word), SimilarityThresholdPct)

\* the inner for loop: some accepted word raises too_similar
LoopTooSimilar(word, filtered_words) ==
  \E n \in DOMAIN filtered_words :
    LET other_word == filtered_words[n]
    IN IF Stem(word) = Stem(other_word) THEN TRUE
       ELSE \/ RatioAtLeast(word, other_word, SimilarityThresholdPct)
            \/ RatioAtLeast(Stem(word), Stem(other_word), SimilarityThresholdPct)

\* the value of too_similar when the word's turn ends
TooSimilar(word, filtered_words) ==
  IF Len(word) >= LongWordLen \/ word \in Range(filtered_words)
    THEN TRUE
    ELSE LoopTooSimilar(word, filtered_words)

RECURSIVE FilterFrom(_, _)
FilterFrom(words, filtered_words) ==
  IF words = <<>> THEN filtered_words
  ELSE FilterFrom(Tail(words),
                  IF TooSimilar(Head(words), filtered_words)
                    THEN filtered_words
                    ELSE Append(filtered_words, Head(words)))

filter_similar_words(words) == FilterFrom(words, <<>>)

\* ------------------------------------------------------------------------
\* sort_words_by_freq
\* ------------------------------------------------------------------------

\* freq_dist.get(word, 0)
FreqGet(freq_dist, word) ==
  IF word \in DOMAIN freq_dist THEN freq_dist[word] ELSE 0

\* sorted(): stable; an element goes after every element whose key is not
\* greater than its own
RECURSIVE InsertByKey(_, _, _)
InsertByKey(sorted, word, freq_dist) ==
  IF sorted = <<>> THEN <<word>>
  ELSE IF FreqGet(freq_dist, Head(sorted)) <= FreqGet(freq_dist, word)
    THEN <<Head(sorted)>> \o InsertByKey(Tail(sorted), word, freq_dist)
    ELSE <<word>> \o sorted

RECURSIVE SortFrom(_, _, _)
SortFrom(words, sorted, freq_dist) ==
  IF words = <<>> THEN sorted
  ELSE SortFrom(Tail(words), InsertByKey(sorted, Head(words), freq_dist), freq_dist)

Reverse(s) == [i \in DOMAIN s |-> s[Len(s) + 1 - i]]

\* sorted(..., reverse=True): most frequent first
sort_words_by_freq_Descending(words, freq_dist) ==
  Reverse(SortFrom(Reverse(words), <<>>, freq_dist))

sort_words_by_freq(words, freq_dist) == SortFrom(words, <<>>, freq_dist)

\* ------------------------------------------------------------------------
\* Linguistic resources of process_image
\* ------------------------------------------------------------------------

w_cat == <<"c","a","t">>
w_watr == <<"w","a","t","r">>
w_Water == <<"W","a","t","e","r">>
w_1999s == <<"1","9","9","9","s">>

\* brown_words: the reference corpus, here a short one
brown_words ==
  <<w_water, w_night, w_water, w_child, w_later, w_night, w_water, w_child,
    w_photo, w_cat, w_cat, w_cat, w_cat>>

\* generate_brown_freq_dist: nltk.probability.FreqDist(brown_words)
generate_brown_freq_dist ==
  [w \in Range(brown_words) |->
     Cardinality({i \in DOMAIN brown_words : brown_words[i] = w})]

\* nltk.pos_tag: a capitalised token is tagged a proper noun
PosTag(word) ==
  IF Len(word) > 0 /\ word[1] \in Range(UpperLetters) THEN "NNP" ELSE "NN"

\* the words the spelling dictionary knows (word in spell)
SpellKnown ==
  {w_water, w_later, w_waters, w_photo, w_photos, w_night, w_child, w_lemon,
   w_brick, w_blackbird, w_photograph, w_cat}

\* spell.correction(word); <<>> stands for None
SpellCorrection(word) == IF word = w_watr THEN w_water ELSE <<>>

\* correct_spelling, one token of the loop
CorrectWord(word) ==
  IF PosTag(word) \in {"NNP", "NNPS"} THEN word
  ELSE IF Lower(word) \notin SpellKnown
    THEN IF SpellCorrection(word) = <<>> THEN word ELSE SpellCorrection(word)
    ELSE word

\* correct_spelling followed by split(): the corrected tokens
correct_spelling(tokens) == [i \in DOMAIN tokens |-> CorrectWord(tokens[i])]

\* the list comprehension of process_image
RECURSIVE TokenFilter(_)
TokenFilter(reordered_text) ==
  IF reordered_text = <<>> THEN <<>>
  ELSE LET word == Head(reordered_text)
       IN IF IsAlpha(word) /\ Len(word) >= MinTokenLen
            THEN <<StripPunct(Lower(word))>> \o TokenFilter(Tail(reordered_text))
            ELSE TokenFilter(Tail(reordered_text))

\* process_image from correct_spelling on: the words of a text
PipelineWords(text) ==
  filter_similar_words(
    TokenFilter(sort_words_by_freq(correct_spelling(text), generate_brown_freq_dist)))

\* ------------------------------------------------------------------------
\* File names, digests, the label
\* ------------------------------------------------------------------------

ext_txt == <<".","t","x","t">>
ext_png == <<".","p","n","g">>
ext_PNG == <<".","P","N","G">>
ext_gif == <<".","g","i","f">>

\* image_extensions of get_file_list
image_extensions ==
  {ext_gif, ext_png, <<".","j","p","g">>, <<".","j","p","e","g">>}

\* os.path.splitext(filename)[1]: from the last dot on, when a character
\* other than a dot stands before it
SplitExt(filename) ==
  LET dots == {i \in DOMAIN filename : filename[i] = "."}
  IN IF dots = {} THEN <<>>
     ELSE LET dotIndex == CHOOSE i \in dots : \A j \in dots : j <= i
          IN IF \E k \in 1 .. (dotIndex - 1) : filename[k] # "."
               THEN SubSeq(filename, dotIndex, Len(filename))
               ELSE <<>>

IsImageName(filename) == Lower(SplitExt(filename)) \in image_extensions

\* hashlib.md5(...).hexdigest() of each content, one symbol per digest;
\* content 0 is the empty content
Digests ==
  <<"d41d8cd98f00b204e9800998ecf8427e", "md5_c1", "md5_c2", "md5_c3",
    "md5_c4", "md5_c5", "md5_c6", "md5_c7", "md5_c8">>

Md5Hex(content) == <<Digests[content + 1]>>

\* ' '.join(words)
RECURSIVE JoinSpaces(_)
JoinSpaces(words) ==
  IF words = <<>> THEN <<>>
  ELSE IF Len(words) = 1 THEN words[1]
  ELSE words[1] \o <<" ">> \o JoinSpaces(Tail(words))

\* the rename value with the hash fallback only for an empty word list
RenameValue_OneWordLabel(words, digest, extension) ==
  IF Len(words) < 1
    THEN digest \o extension
    ELSE JoinSpaces(SubSeq(words, 1, Min(MaxLabelWords, Len(words)))) \o extension

\* main: the rename value of an image, from its words, the digest of its
\* content and its extension
RenameValue(words, digest, extension) ==
  IF words = <<>> \/ Len(words) < MinLabelWords
    THEN digest \o extension
    ELSE JoinSpaces(SubSeq(words, 1, Min(MaxLabelWords, Len(words)))) \o extension

\* ------------------------------------------------------------------------
\* The directory
\* ------------------------------------------------------------------------

\* a file: the name it had when the run started, its content, its access
File(orig, content, readable, writable) ==
  [orig |-> orig, content |-> content, readable |-> readable, writable |-> writable]

n_a_txt == <<"a">> \o ext_txt
n_b_txt == <<"b">> \o ext_txt
n_s_txt == <<"s">> \o ext_txt
n_dot_env == <<".","e","n","v">>
n_dot_h_png == <<".","h">> \o ext_png
n_p_png == <<"p">> \o ext_png
n_q_PNG == <<"q">> \o ext_PNG
n_u_gif == <<"u">> \o ext_gif

\* the files a scanned directory is drawn from
FileUniverse ==
  { File(n_a_txt, 1, TRUE, TRUE),
    File(n_b_txt, 1, TRUE, TRUE),
    File(Md5Hex(1) \o ext_txt, 2, TRUE, TRUE),
    File(Md5Hex(3) \o ext_txt, 3, TRUE, TRUE),
    File(n_s_txt, 4, FALSE, TRUE),
    File(n_dot_env, 5, TRUE, TRUE),
    File(n_dot_h_png, 8, TRUE, TRUE),
    File(n_p_png, 6, TRUE, TRUE),
    File(n_q_PNG, 0, TRUE, TRUE),
    File(n_u_gif, 7, FALSE, FALSE) }

\* the directory holding the files of S under their names
DirOf(S) == [n \in {f.orig : f \in S} |-> CHOOSE f \in S : f.orig = n]

\* the orders in which os.listdir can give the names of S
Listings(S) ==
  {l \in [1 .. Cardinality(S) -> S] : \A i, j \in DOMAIN l : l[i] = l[j] => i = j}

\* os.rename(src, dst) on directory d: replaces an existing dst on POSIX,
\* fails on it on Windows; fails when src is missing
OsRename(d, src, dst, posix) ==
  IF src \notin DOMAIN d THEN [ok |-> FALSE, dir |-> d]
  ELSE IF src = dst THEN [ok |-> TRUE, dir |-> d]
  ELSE IF dst \in DOMAIN d /\ ~ posix THEN [ok |-> FALSE, dir |-> d]
  ELSE [ok |-> TRUE,
        dir |-> [n \in (DOMAIN d \ {src}) \cup {dst} |->
                   IF n = dst THEN d[src] ELSE d[n]]]

\* the texts the OCR adapter can give for an image
OcrTexts ==
  { <<>>,
    <<w_cat, w_water>>,
    <<w_Water, w_1999s, w_photo>>,
    <<w_watr, w_later, w_waters>>,
    <<w_water, w_photo, w_night, w_child, w_lemon, w_brick, w_blackbird>> }

\* the words of each text the OCR adapter can give
WordsOfText == [t \in OcrTexts |-> PipelineWords(t)]

\* pytesseract.image_to_string: an exception or a text
OcrOutcomes == {[ok |-> FALSE, text |-> <<>>]} \cup {[ok |-> TRUE, text |-> t] : t \in OcrTexts}

\* ------------------------------------------------------------------------
\* State
\* ------------------------------------------------------------------------

VARIABLES
  f_words,        \* filter_similar_words: the argument
  f_once,         \* its result
  f_twice,        \* the result of filtering f_once again
  f_pc,           \* "input", "once", "twice"
  s_words,        \* sort_words_by_freq: the words
  s_freq,         \* the frequency table (a function on the words it holds)
  s_out,          \* the result
  s_pc,           \* "input", "sorted"
  test,           \* args.test
  verbose,        \* args.verbose
  output_text,    \* args.output_text is given
  posix,          \* the platform's os.rename replaces an existing file
  dir,            \* the scanned directory: name -> file
  outfile,        \* the file args.output_text names
  initial,        \* dir and outfile when main() started
  pc,             \* where main() is
  image_list,     \* get_file_list: the image names
  not_image_list, \* get_file_list: the other names
  idx,            \* position of the running for loop
  file_infos,     \* the rename plans
  log,            \* what was printed
  calls,          \* the os.rename calls made
  moves,          \* per file of the start: the renames that moved it
  exc             \* the exception that left main(), "none" if none

pureVars == <<f_words, f_once, f_twice, f_pc, s_words, s_freq, s_out, s_pc>>

mainVars ==
  <<test, verbose, output_text, posix, dir, outfile, initial, pc, image_list,
    not_image_list, idx, file_infos, log, calls, moves, exc>>

vars == <<pureVars, mainVars>>

\* all sequences over S of length at most n
SeqsUpTo(S, n) == UNION {[1 .. k -> S] : k \in 0 .. n}

\* ------------------------------------------------------------------------
\* filter_similar_words applied to drawn token lists
\* ------------------------------------------------------------------------

FilterVocab == {w_water, w_later, w_waters, w_photo, w_blackbird, w_photograph}

FilterIdle ==
  /\ f_words = <<>>
  /\ f_once = <<>>
  /\ f_twice = <<>>
  /\ f_pc = "idle"

SortIdle ==
  /\ s_words = <<>>
  /\ s_freq = <<>>
  /\ s_out = <<>>
  /\ s_pc = "idle"

NoOutfile == [exists |-> FALSE, writable |-> FALSE, lines |-> <<>>]

MainIdle ==
  /\ test = FALSE
  /\ verbose = FALSE
  /\ output_text = FALSE
  /\ posix = TRUE
  /\ dir = <<>>
  /\ outfile = NoOutfile
  /\ initial = [dir |-> <<>>, outfile |-> NoOutfile]
  /\ pc = "idle"
  /\ image_list = <<>>
  /\ not_image_list = <<>>
  /\ idx = 0
  /\ file_infos = <<>>
  /\ log = <<>>
  /\ calls = <<>>
  /\ moves = <<>>
  /\ exc = "none"

InitFilter ==
  /\ f_words \in SeqsUpTo(FilterVocab, MaxWords)
  /\ f_once = <<>>
  /\ f_twice = <<>>
  /\ f_pc = "input"
  /\ SortIdle
  /\ MainIdle

ApplyFilter ==
  /\ f_pc = "input"
  /\ f_once' = filter_similar_words(f_words)
  /\ f_pc' = "once"
  /\ UNCHANGED <<f_words, f_twice, s_words, s_freq, s_out, s_pc, mainVars>>

ApplyFilterAgain ==
  /\ f_pc = "once"
  /\ f_twice' = filter_similar_words(f_once)
  /\ f_pc' = "twice"
  /\ UNCHANGED <<f_words, f_once, s_words, s_freq, s_out, s_pc, mainVars>>

NextFilter == ApplyFilter \/ ApplyFilterAgain

SpecFilter == InitFilter /\ [][NextFilter]_vars

\* ------------------------------------------------------------------------
\* sort_words_by_freq applied to drawn token lists and frequency tables
\* ------------------------------------------------------------------------

SortVocab == {w_water, w_photo, w_night}

FreqTables == UNION {[D -> 1 .. MaxFreq] : D \in SUBSET SortVocab}

InitSort ==
  /\ s_words \in SeqsUpTo(SortVocab, MaxWords)
  /\ s_freq \in FreqTables
  /\ s_out = <<>>
  /\ s_pc = "input"
  /\ FilterIdle
  /\ MainIdle

ApplySort ==
  /\ s_pc = "input"
  /\ s_out' = sort_words_by_freq(s_words, s_freq)
  /\ s_pc' = "sorted"
  /\ UNCHANGED <<s_words, s_freq, f_words, f_once, f_twice, f_pc, mainVars>>

NextSort == ApplySort

SpecSort == InitSort /\ [][NextSort]_vars

\* ------------------------------------------------------------------------
\* main() of memeRenamer.py
\* ------------------------------------------------------------------------

Msg(m, f) == [msg |-> m, file |-> f]

\* the messages printed only in verbose or test mode
IfChatty(msgs) == IF verbose \/ test THEN msgs ELSE <<>>

\* the states in which the file named by --output_text can be found
OutfileStates ==
  { NoOutfile,
    [exists |-> TRUE, writable |-> TRUE, lines |-> <<<<w_cat>>>>],
    [exists |-> TRUE, writable |-> FALSE, lines |-> <<<<w_cat>>>>] }

Init ==
  /\ test \in BOOLEAN
  /\ verbose \in BOOLEAN
  /\ output_text \in BOOLEAN
  /\ posix \in BOOLEAN
  /\ \E S \in SUBSET FileUniverse :
       /\ Cardinality(S) <= MaxFiles
       /\ dir = DirOf(S)
  /\ outfile \in OutfileStates
  /\ initial = [dir |-> dir, outfile |-> outfile]
  /\ pc = "start"
  /\ image_list = <<>>
  /\ not_image_list = <<>>
  /\ idx = 0
  /\ file_infos = <<>>
  /\ log = <<>>
  /\ calls = <<>>
  /\ moves = [n \in DOMAIN dir |-> 0]
  /\ exc = "none"
  /\ FilterIdle
  /\ SortIdle

\* main, up to the planning loops: the directory check, the initialisation
\* of the --output_text file, get_file_list
Startup ==
  /\ pc = "start"
  /\ \E dirOK \in BOOLEAN :
     \E il \in Listings({n \in DOMAIN dir : IsImageName(n)}) :
     \E nl \in Listings({n \in DOMAIN dir : ~ IsImageName(n)}) :
       LET access == outfile.exists /\ outfile.writable
           openFails == outfile.exists /\ ~ outfile.writable
           outMsgs ==
             IF ~ output_text THEN <<>>
             ELSE (IF ~ access THEN <<Msg("outfile_warning", <<>>)>>
                   ELSE IfChatty(<<Msg("outfile_writable", <<>>)>>))
                  \o <<Msg("outfile_init", <<>>)>>
       IN IF ~ dirOK
            THEN /\ log' = <<Msg("directory_error", <<>>)>>
                 /\ pc' = "done"
                 /\ UNCHANGED <<outfile, image_list, not_image_list, idx, exc>>
          ELSE IF output_text /\ openFails
            THEN /\ log' = outMsgs
                 /\ pc' = "crashed"
                 /\ exc' = "open_output_text"
                 /\ UNCHANGED <<outfile, image_list, not_image_list, idx>>
          ELSE /\ outfile' = IF output_text
                               THEN [exists |-> TRUE, writable |-> TRUE, lines |-> <<>>]
                               ELSE outfile
               /\ image_list' = il
               /\ not_image_list' = nl
               /\ log' = outMsgs \o IfChatty(<<Msg("found", <<>>)>>)
                           \o <<Msg("planning_non_image", <<>>)>>
               /\ pc' = "plan_non_image"
               /\ idx' = 1
               /\ exc' = "none"
  /\ UNCHANGED <<test, verbose, output_text, posix, dir, initial, file_infos,
                 calls, moves, pureVars>>

\* generate_md5 raises when the file cannot be opened for reading
Md5Raises(d, filename) == filename \notin DOMAIN d \/ ~ d[filename].readable

\* one turn of the loop over not_image_list, or the step to the next loop
PlanNonImage ==
  /\ pc = "plan_non_image"
  /\ IF idx > Len(not_image_list)
       THEN /\ pc' = "plan_image"
            /\ idx' = 1
            /\ log' = log \o <<Msg("planning_image", <<>>)>>
            /\ UNCHANGED <<file_infos, exc>>
     ELSE LET filename == not_image_list[idx]
              file_info == [filename |-> filename,
                            words |-> <<>>,
                            rename |-> Md5Hex(dir[filename].content) \o SplitExt(filename)]
          IN IF filename[1] = "."
               THEN /\ idx' = idx + 1
                    /\ UNCHANGED <<pc, file_infos, log, exc>>
             ELSE IF Md5Raises(dir, filename)
               THEN /\ pc' = "crashed"
                    /\ exc' = "generate_md5"
                    /\ UNCHANGED <<idx, file_infos, log>>
             ELSE /\ file_infos' = Append(file_infos, file_info)
                  /\ log' = log \o IfChatty(<<Msg("planning", filename)>>)
                  /\ idx' = idx + 1
                  /\ UNCHANGED <<pc, exc>>
  /\ UNCHANGED <<test, verbose, output_text, posix, dir, outfile, initial,
                 image_list, not_image_list, calls, moves, pureVars>>

\* the preliminary check of process_image fails
CannotProcess(d, filename) ==
  \/ filename \notin DOMAIN d
  \/ d[filename].content = 0
  \/ ~ (d[filename].readable /\ d[filename].writable)

\* append_to_file(outfile, text) succeeds
CanAppend == output_text /\ (outfile.exists => outfile.writable)

\* process_image: the words returned, the messages printed, and whether
\* the text is handed to append_to_file
process_image(filename, ocr) ==
  IF CannotProcess(dir, filename)
    THEN [words |-> <<>>, msgs |-> <<Msg("cannot_process", filename)>>, append |-> FALSE]
  ELSE IF ~ ocr.ok
    THEN [words |-> <<>>, msgs |-> <<Msg("ocr_error", filename)>>, append |-> FALSE]
  ELSE IF ocr.text = <<>>
    THEN [words |-> <<>>, msgs |-> <<Msg("no_text", filename)>>, append |-> FALSE]
  ELSE [words |-> WordsOfText[ocr.text],
        msgs |-> (IF ~ test /\ ~ CanAppend THEN <<Msg("append_error", filename)>> ELSE <<>>)
                 \o IfChatty(<<Msg("raw_text", filename)>>),
        append |-> ~ test]

\* one turn of the loop over image_list, or the step to the renaming loop
PlanImage ==
  /\ pc = "plan_image"
  /\ IF idx > Len(image_list)
       THEN /\ pc' = "rename"
            /\ idx' = 1
            /\ log' = log \o <<Msg("renaming_files", <<>>)>>
            /\ UNCHANGED <<file_infos, exc, outfile>>
     ELSE LET filename == image_list[idx]
          IN IF filename[1] = "."
               THEN /\ idx' = idx + 1
                    /\ UNCHANGED <<pc, file_infos, log, exc, outfile>>
             ELSE \E ocr \in OcrOutcomes :
               LET r == process_image(filename, ocr)
                   words == r.words
                   hashed == words = <<>> \/ Len(words) < MinLabelWords
                   file_info == [filename |-> filename,
                                 words |-> words,
                                 rename |-> RenameValue(words,
                                                        Md5Hex(dir[filename].content),
                                                        SplitExt(filename))]
               IN /\ outfile' = IF r.append /\ CanAppend
                                  THEN [exists |-> TRUE, writable |-> TRUE,
                                        lines |-> Append(outfile.lines, ocr.text)]
                                  ELSE outfile
                  /\ IF hashed /\ Md5Raises(dir, filename)
                       THEN /\ pc' = "crashed"
                            /\ exc' = "generate_md5"
                            /\ log' = log \o r.msgs
                            /\ UNCHANGED <<idx, file_infos>>
                     ELSE /\ file_infos' = Append(file_infos, file_info)
                          /\ log' = log \o r.msgs \o IfChatty(<<Msg("planning", filename)>>)
                          /\ idx' = idx + 1
                          /\ UNCHANGED <<pc, exc>>
  /\ UNCHANGED <<test, verbose, output_text, posix, dir, initial,
                 image_list, not_image_list, calls, moves, pureVars>>

\* rename_file returns before os.rename: the paths are equal and the mode
\* is verbose or test
ReturnsEarly(file_info) ==
  file_info.filename = file_info.rename /\ (verbose \/ test)

\* rename_file reaches os.rename
CallsOsRename(file_info) == ~ ReturnsEarly(file_info) /\ ~ test

\* one turn of the renaming loop (rename_file), or the end of main
RenameStep ==
  /\ pc = "rename"
  /\ IF idx > Len(file_infos)
       THEN /\ pc' = "done"
            /\ log' = log \o <<Msg("completed", <<>>)>>
            /\ UNCHANGED <<idx, dir, calls, moves>>
     ELSE LET file_info == file_infos[idx]
              src == file_info.filename
              dst == file_info.rename
              res == OsRename(dir, src, dst, posix)
              moved == res.ok /\ src # dst
          IN /\ idx' = idx + 1
             /\ pc' = pc
             /\ IF ReturnsEarly(file_info)
                  THEN /\ log' = log \o <<Msg("no_need", src)>>
                       /\ UNCHANGED <<dir, calls, moves>>
                ELSE IF ~ CallsOsRename(file_info)
                  THEN /\ log' = log \o IfChatty(<<Msg("renaming", src)>>)
                       /\ UNCHANGED <<dir, calls, moves>>
                ELSE /\ log' = log \o IfChatty(<<Msg("renaming", src)>>)
                                   \o (IF res.ok THEN <<>> ELSE <<Msg("rename_error", src)>>)
                     /\ dir' = res.dir
                     /\ calls' = Append(calls, [src |-> src, dst |-> dst, ok |-> res.ok])
                     /\ moves' = IF moved
                                   THEN [moves EXCEPT ![dir[src].orig] = @ + 1]
                                   ELSE moves
  /\ UNCHANGED <<test, verbose, output_text, posix, outfile, initial, image_list,
                 not_image_list, file_infos, exc, pureVars>>

Next == Startup \/ PlanNonImage \/ PlanImage \/ RenameStep

Spec == Init /\ [][Next]_vars

\* ------------------------------------------------------------------------
\* Properties of main()
\* ------------------------------------------------------------------------

\* C1: with --test set, nothing on disk changes during the run: the scanned
\* directory and the --output_text file stay as they were at the start.
C1_TestModeMutatesNothing ==
  test => dir = initial.dir /\ outfile = initial.outfile

\* the names get_file_list gives that do not start with a dot
Planned(list) == {list[i] : i \in {j \in DOMAIN list : list[j][1] # "."}}

\* C2: once the directory check has passed no per-file error leaves
\* main(), and every listed file is planned whatever failed before it.
C2_PerFileErrorsRecovered ==
  /\ exc # "generate_md5"
  /\ pc \in {"rename", "done"} =>
       \A n \in Planned(not_image_list) \cup Planned(image_list) :
         \E k \in DOMAIN file_infos : file_infos[k].filename = n

\* C3: an image that is missing, empty or not both readable and writable
\* gets no rename plan and has its name at the end of the run.
C3_UnprocessableImageSkipped ==
  /\ \A k \in DOMAIN file_infos :
       IsImageName(file_infos[k].filename) =>
         ~ CannotProcess(initial.dir, file_infos[k].filename)
  /\ pc = "done" =>
       \A n \in DOMAIN initial.dir :
         IsImageName(n) /\ CannotProcess(initial.dir, n) =>
           n \in DOMAIN dir /\ dir[n].orig = n

\* the first n of the tokens, single spaces between them
RECURSIVE SpaceJoined(_, _)
SpaceJoined(tokens, n) ==
  IF n = 0 THEN <<>>
  ELSE IF n = 1 THEN tokens[1]
  ELSE SpaceJoined(tokens, n - 1) \o <<" ">> \o tokens[n]

SpacesIn(name) == Cardinality({i \in DOMAIN name : name[i] = " "})

\* C4: the planned name of an image whose pipeline gave fewer than 2
\* tokens is the digest of its content plus its extension; otherwise it is
\* the first min(5, len) tokens joined by single spaces plus the extension,
\* so a word label has 2 to 5 tokens.
C4_LabelRule ==
  \A k \in DOMAIN file_infos :
    LET info == file_infos[k]
        W == info.words
        ext == SplitExt(info.filename)
        n == IF Len(W) < 5 THEN Len(W) ELSE 5
    IN IsImageName(info.filename) =>
         IF Len(W) < 2
           THEN info.rename = Md5Hex(initial.dir[info.filename].content) \o ext
           ELSE /\ info.rename = SpaceJoined(W, n) \o ext
                /\ SpacesIn(info.rename) + 1 \in 2 .. 5

\* an image whose pipeline gave seven tokens was planned with the first
\* five of them
C4_Witness ==
  \E k \in DOMAIN file_infos :
    /\ Len(file_infos[k].words) = 7
    /\ file_infos[k].rename =
         SpaceJoined(<<w_lemon, w_brick, w_blackbird, w_photo, w_night>>, 5) \o ext_png

\* C8: in a live run no file is moved by more than one rename.
C8_RenamedAtMostOnce ==
  \A n \in DOMAIN moves : moves[n] <= 1

\* C9: a plan whose destination is its source never reaches os.rename,
\* reports no error, and prints 'no need to rename' only in verbose or
\* test mode.
C9_SamePathIsNoOp ==
  /\ \A k \in DOMAIN calls : calls[k].src # calls[k].dst
  /\ \A k \in DOMAIN log :
       /\ log[k].msg = "no_need" => verbose \/ test
       /\ log[k].msg = "rename_error" =>
            \A j \in DOMAIN file_infos :
              file_infos[j].filename = log[k].file =>
                file_infos[j].rename # log[k].file

\* C10: after the renaming pass every file of the start is still in the
\* directory, under its old name or under its planned name.
C10_NoFileLost ==
  pc = "done" =>
    \A n \in DOMAIN initial.dir :
      \E m \in DOMAIN dir :
        /\ dir[m].orig = n
        /\ \/ m = n
           \/ \E k \in DOMAIN file_infos :
                file_infos[k].filename = n /\ file_infos[k].rename = m

\* ------------------------------------------------------------------------
\* Properties of filter_similar_words
\* ------------------------------------------------------------------------

\* Variant A of the similarity filter, as the specification words it
VariantARejects(word, accepted) ==
  \/ Len(word) >= 10
  \/ \E other \in accepted :
       \/ word = other
       \/ Stem(word) = Stem(other)
       \/ RatioAtLeast(word, other, 80)
       \/ RatioAtLeast(Stem(word), Stem(other), 80)

\* the elements of s at the positions in keep, in order
RECURSIVE PickFrom(_, _, _)
PickFrom(s, keep, i) ==
  IF i > Len(s) THEN <<>>
  ELSE IF i \in keep THEN <<s[i]>> \o PickFrom(s, keep, i + 1)
  ELSE PickFrom(s, keep, i + 1)

\* C5: filtering the filter's output gives the same output, and no token
\* of the output is too similar to a token before it in the output.
C5_FilterIdempotent ==
  /\ f_pc = "twice" => f_twice = f_once
  /\ f_pc \in {"once", "twice"} =>
       \A j \in DOMAIN f_once : \A i \in 1 .. (j - 1) :
         ~ VariantARejects(f_once[j], {f_once[i]})

\* the second filtering acted on a list from which the first one had
\* removed tokens, and left two or more
C5_Witness ==
  /\ f_pc = "twice"
  /\ Len(f_once) >= 2
  /\ Len(f_once) < Len(f_words)

\* C6: the output is the subsequence of the input kept by the greedy rule
\* of Variant A: a token is dropped iff it has 10 or more characters or is
\* rejected against the tokens kept before it.
C6_GreedyVariantA ==
  f_pc \in {"once", "twice"} =>
    \E keep \in SUBSET (DOMAIN f_words) :
      /\ f_once = PickFrom(f_words, keep, 1)
      /\ \A i \in DOMAIN f_words :
           i \notin keep <=>
             VariantARejects(f_words[i],
                             {f_words[j] : j \in keep \cap (1 .. (i - 1))})

\* a token was dropped only because its stem is close to a kept token's
\* stem, after another token was kept
C6_Witness ==
  /\ f_pc = "once"
  /\ f_words = <<w_later, w_blackbird, w_waters>>
  /\ f_once = <<w_later, w_blackbird>>

\* ------------------------------------------------------------------------
\* Properties of sort_words_by_freq
\* ------------------------------------------------------------------------

\* the count of a word in the table, 0 for a word the table lacks
Frequency(word) == IF word \in DOMAIN s_freq THEN s_freq[word] ELSE 0

IndexPerms(n) == {p \in [1 .. n -> 1 .. n] : \A i, j \in 1 .. n : p[i] = p[j] => i = j}

\* C7: the output is a permutation of the input, ascending by frequency,
\* tokens of equal frequency in their input order, absent tokens counted 0.
C7_SortedStable ==
  s_pc = "sorted" =>
    /\ Len(s_out) = Len(s_words)
    /\ \E p \in IndexPerms(Len(s_words)) :
         /\ \A k \in DOMAIN s_out : s_out[k] = s_words[p[k]]
         /\ \A k, l \in DOMAIN s_out :
              k < l =>
                \/ Frequency(s_words[p[k]]) < Frequency(s_words[p[l]])
                \/ /\ Frequency(s_words[p[k]]) = Frequency(s_words[p[l]])
                   /\ p[k] < p[l]

\* the sort moved a token the table lacks in front of a counted one and
\* kept two tokens of equal count in their input order
C7_Witness ==
  /\ s_pc = "sorted"
  /\ s_words = <<w_water, w_photo, w_night>>
  /\ s_out = <<w_night, w_water, w_photo>>
  /\ w_night \notin DOMAIN s_freq
  /\ Frequency(w_water) = Frequency(w_photo)
====
